---------------------------- MODULE Spec2Model ----------------------------
(***************************************************************************)
(* Model of the cleaning / consolidation functions of src/src/cleaning.py  *)
(* (EDA of Spanish R&D statistics).                                        *)
(*                                                                         *)
(* A DataFrame is a record [columns, rows]: `columns` is the set of column *)
(* labels and `rows` the sequence of rows in positional order; each row is *)
(* [idx |-> its index label, c |-> the function from column label to the   *)
(* cell].  A cell is a record [t, n, e, s]:                                *)
(*   t = "nan"  the missing value (NaN)                                    *)
(*   t = "num"  the number n / 10^e, kept normalised (no trailing zero in  *)
(*              the fraction), so that equal numbers are equal records;    *)
(*              binary rounding of float64 is not modelled                 *)
(*   t = "str"  the Python string made of the pieces of the sequence s, in  *)
(*              order: single characters where the code looks at them (the *)
(*              'Total' cells, the year strings, the '%' of a label), the  *)
(*              text between them in one piece otherwise                   *)
(* The column order of a DataFrame is not modelled.  The identifiers of    *)
(* the source written with a tilde-n are written with "ni" (anio for the   *)
(* source's year parameters, "Anios" for the year column label), and the   *)
(* accents of the column headers are left out.                             *)
(*                                                                         *)
(* The specifications of one function hold the argument and the result as  *)
(* values (df, df2, df_limpio, ...).  The specifications of a sequence of   *)
(* calls hold the DataFrame objects in `heap` (the object of identity i is  *)
(* heap[i]) and the names bound to them in `ref`, so that a call that       *)
(* writes into its argument shows.                                         *)
(***************************************************************************)
EXTENDS Integers, Sequences, FiniteSets, TLC

VARIABLES pc, df, df2, anio_duplicado, anio_inicio, anio_fin,
          df_limpio, df_pivot, df_consolidado, df_filtrado, err, heap, ref

vars == <<pc, df, df2, anio_duplicado, anio_inicio, anio_fin,
          df_limpio, df_pivot, df_consolidado, df_filtrado, err, heap, ref>>

----------------------------------------------------------------------------
(* Bounds of the model *)

\* most rows of a raw long table given to limpiar_columna_total
MaxRows == 2
\* most characters of the 'Total' column of a raw long table, written with
\* its cells one after the other and one separator between two cells
MaxChars == 8

\* number of years the tables range over
NumYears == 3

Years == 2020..(2020 + NumYears - 1)

----------------------------------------------------------------------------
(* Cells *)

NaN == [t |-> "nan", n |-> 0, e |-> 0, s |-> <<>>]

Str(s) == [t |-> "str", n |-> 0, e |-> 0, s |-> s]

RECURSIVE Num(_, _)
Num(n, e) ==
    IF e > 0 /\ n % 10 = 0 THEN Num(n \div 10, e - 1)
    ELSE [t |-> "num", n |-> n, e |-> e, s |-> <<>>]

IntCell(n) == Num(n, 0)

Digits == {"0", "1", "2", "3", "4", "5", "6", "7", "8", "9"}

DigitVal(ch) ==
    CASE ch = "0" -> 0 [] ch = "1" -> 1 [] ch = "2" -> 2 [] ch = "3" -> 3
      [] ch = "4" -> 4 [] ch = "5" -> 5 [] ch = "6" -> 6 [] ch = "7" -> 7
      [] ch = "8" -> 8 [] ch = "9" -> 9

\* the natural number written by a sequence of digits (0 for no digit)
RECURSIVE DigitsToNat(_)
DigitsToNat(s) ==
    IF s = <<>> THEN 0
    ELSE 10 * DigitsToNat(SubSeq(s, 1, Len(s) - 1)) + DigitVal(s[Len(s)])

IsDigit(ch) == ch \in Digits

Count(s, ch) == Cardinality({i \in DOMAIN s : s[i] = ch})

\* position of the first ch in s, Len(s) + 1 when there is none
IndexOf(s, ch) ==
    IF \E i \in DOMAIN s : s[i] = ch
    THEN CHOOSE i \in DOMAIN s : s[i] = ch /\ \A j \in 1..(i - 1) : s[j] # ch
    ELSE Len(s) + 1

----------------------------------------------------------------------------
(* pandas string and numeric conversions used by the source *)

\* str.replace(old, new, regex=False) for a one-character `old`
RECURSIVE StrReplace(_, _, _)
StrReplace(s, old, new) ==
    IF s = <<>> THEN <<>>
    ELSE (IF Head(s) = old THEN new ELSE <<Head(s)>>) \o StrReplace(Tail(s), old, new)

\* the decimal literals pd.to_numeric parses, over the characters of the model:
\* digits with at most one '.', at least one digit
IsFloatLiteral(s) ==
    /\ \A i \in DOMAIN s : IsDigit(s[i]) \/ s[i] = "."
    /\ Count(s, ".") <= 1
    /\ \E i \in DOMAIN s : IsDigit(s[i])

FloatValue(s) ==
    LET p == IndexOf(s, ".")
        int == SubSeq(s, 1, p - 1)
        frac == SubSeq(s, p + 1, Len(s))
    IN Num(DigitsToNat(int \o frac), Len(frac))

\* pd.to_numeric(..., errors='coerce') on one cell
ToNumeric(v) ==
    CASE v.t = "num" -> v
      [] v.t = "nan" -> NaN
      [] v.t = "str" -> IF IsFloatLiteral(v.s) THEN FloatValue(v.s) ELSE NaN

----------------------------------------------------------------------------
(* DataFrames *)

EmptyDF == [columns |-> {}, rows |-> <<>>]

LongColumns == {"Anios", "Sectores/unidad", "Total"}

\* the cells of column `col`, in row order
Column(d, col) == [i \in DOMAIN d.rows |-> d.rows[i].c[col]]

\* d with the cells of column `col` replaced by the sequence `cells`
SetColumn(d, col, cells) ==
    [d EXCEPT !.rows = [i \in DOMAIN d.rows |->
                          [d.rows[i] EXCEPT !.c = [@ EXCEPT ![col] = cells[i]]]]]

Ok(d) == [err |-> "", df |-> d]

Raise(e) == [err |-> e, df |-> EmptyDF]

----------------------------------------------------------------------------
(* limpiar_columna_total *)

Sentinel == Str(<<".", ".">>)

\* Series.replace('..', np.nan) (Paso 1)
ReplaceSentinel(cells) ==
    [i \in DOMAIN cells |-> IF cells[i] = Sentinel THEN NaN ELSE cells[i]]

\* whether the column is still of object dtype after Paso 1: pandas before
\* 3.0 (dc) re-infers the dtype of an object column in which replace() changed
\* a cell, and an object column without any string left becomes float64
IsObjectDtype(cells, dc) ==
    \/ ~dc
    \/ ReplaceSentinel(cells) = cells
    \/ \E i \in DOMAIN cells : ReplaceSentinel(cells)[i].t = "str"

\* Series.str.replace(old, new, regex=False): a cell that is no string gives NaN
SeriesStrReplace(cells, old, new) ==
    [i \in DOMAIN cells |->
        IF cells[i].t = "str" THEN Str(StrReplace(cells[i].s, old, new)) ELSE NaN]

\* pd.to_numeric(series, errors='coerce')
SeriesToNumeric(cells) == [i \in DOMAIN cells |-> ToNumeric(cells[i])]

\* Paso 2 without the removal of the thousands separators
Paso2_KeepPoints(cells) == SeriesStrReplace(cells, ".", <<".">>)

Paso2(cells) == SeriesStrReplace(cells, ".", <<>>)

Paso3(cells) == SeriesStrReplace(cells, ",", <<".">>)

\* the whole function: the result, or the exception the .str accessor raises
\* on a column that is not of object dtype
limpiar_columna_total(d, dc) ==
    LET paso1 == ReplaceSentinel(Column(d, "Total"))
    IN IF ~IsObjectDtype(Column(d, "Total"), dc)
       THEN Raise("AttributeError")
       ELSE Ok(SetColumn(d, "Total", SeriesToNumeric(Paso3(Paso2(paso1)))))

----------------------------------------------------------------------------
(* Inputs of limpiar_columna_total: raw long tables *)

\* characters of the raw 'Total' cells
Chars == {"1", ".", ","}

Categories == <<"Total (miles de euros)", "Empresas: Total (miles de euros)">>

Strings(k) == UNION {[1..j -> Chars] : j \in 0..k}

\* the raw long table of one sector's series whose 'Total' cells are `cells`
RawTable(cells) ==
    [columns |-> LongColumns,
     rows |-> [i \in DOMAIN cells |->
                 [idx |-> i - 1,
                  c |-> [col \in LongColumns |->
                           CASE col = "Anios" -> IntCell(2018 + i)
                             [] col = "Sectores/unidad" ->
                                    Str(<<Categories[1 + (i % Len(Categories))]>>)
                             [] col = "Total" -> Str(cells[i])]]]]


\* df is a raw long table of n more rows after those of `cells`, with
\* `budget` characters left for their 'Total' cells and separators
RECURSIVE RawInput(_, _, _)
RawInput(n, budget, cells) ==
    IF n = 0 THEN df = RawTable(cells)
    ELSE \E s \in Strings(budget) : RawInput(n - 1, budget - Len(s) - 1, Append(cells, s))

----------------------------------------------------------------------------
(* Specification of the numeric normaliser *)

InitLimpiar ==
    /\ pc = "limpiar"
    /\ \E n \in 0..MaxRows : RawInput(n, MaxChars, <<>>)
    /\ df2 = EmptyDF
    /\ anio_duplicado = 0 /\ anio_inicio = 0 /\ anio_fin = 0
    /\ df_limpio = EmptyDF /\ df_pivot = EmptyDF
    /\ df_consolidado = EmptyDF /\ df_filtrado = EmptyDF
    /\ err = ""
    /\ heap = <<>> /\ ref = <<>>

Limpiar ==
    /\ pc = "limpiar"
    /\ \E dc \in BOOLEAN :
          LET r == limpiar_columna_total(df, dc)
          IN /\ df_limpio' = r.df
             /\ err' = r.err
    /\ pc' = "limpiado"
    /\ UNCHANGED <<df, df2, anio_duplicado, anio_inicio, anio_fin,
                   df_pivot, df_consolidado, df_filtrado, heap, ref>>

NextLimpiar == Limpiar

SpecLimpiar == InitLimpiar /\ [][NextLimpiar]_vars

----------------------------------------------------------------------------
(* pivotear_dataset *)

\* the pieces of a string in one
RECURSIVE Join(_)
Join(s) == IF s = <<>> THEN "" ELSE Head(s) \o Join(Tail(s))

\* the column label made of a 'Sectores/unidad' cell
Label(v) == Join(v.s)

\* the order of the values of a year index: numbers by value, year strings
\* of one length in the order of the numbers they write
YearKey(v) == IF v.t = "num" THEN v.n ELSE DigitsToNat(v.s)

\* the values of set S as the sequence ascending in YearKey
RECURSIVE SortedYears(_)
SortedYears(S) ==
    IF S = {} THEN <<>>
    ELSE LET m == CHOOSE x \in S : \A y \in S : YearKey(x) <= YearKey(y)
         IN <<m>> \o SortedYears(S \ {m})

\* two rows of the long table with the same index and column key
HasDuplicateEntries(d) ==
    \E i, j \in DOMAIN d.rows :
        /\ i # j
        /\ d.rows[i].c["Anios"] = d.rows[j].c["Anios"]
        /\ d.rows[i].c["Sectores/unidad"] = d.rows[j].c["Sectores/unidad"]

\* a pivot cell in which the last of the rows of the category is kept,
\* whatever its year
PivotCell_AnyYear(d, year, label) ==
    IF \E i \in DOMAIN d.rows : Label(d.rows[i].c["Sectores/unidad"]) = label
    THEN LET i == CHOOSE k \in DOMAIN d.rows :
                      /\ Label(d.rows[k].c["Sectores/unidad"]) = label
                      /\ \A j \in DOMAIN d.rows :
                            Label(d.rows[j].c["Sectores/unidad"]) = label => j <= k
         IN d.rows[i].c["Total"]
    ELSE NaN

\* the cell of the wide table at (year, label): the 'Total' of the row with
\* that key, NaN when the long table has none
PivotCell(d, year, label) ==
    IF \E i \in DOMAIN d.rows :
           d.rows[i].c["Anios"] = year /\ Label(d.rows[i].c["Sectores/unidad"]) = label
    THEN LET i == CHOOSE k \in DOMAIN d.rows :
                      /\ d.rows[k].c["Anios"] = year
                      /\ Label(d.rows[k].c["Sectores/unidad"]) = label
         IN d.rows[i].c["Total"]
    ELSE NaN

\* the wide table of df.pivot(...).reset_index(): one row per index value in
\* ascending order, renumbered from 0, 'Anios' as a column again
WideTable(d) ==
    LET years == SortedYears({d.rows[i].c["Anios"] : i \in DOMAIN d.rows})
        labels == {Label(d.rows[i].c["Sectores/unidad"]) : i \in DOMAIN d.rows}
    IN [columns |-> {"Anios"} \cup labels,
        rows |-> [k \in DOMAIN years |->
                    [idx |-> k - 1,
                     c |-> [col \in {"Anios"} \cup labels |->
                              IF col = "Anios" THEN years[k]
                              ELSE PivotCell(d, years[k], col)]]]]

\* a pivot that lets the last row of a key overwrite the others
pivotear_dataset_overwrite(d) == Ok(WideTable(d))

\* DataFrame.pivot raises ValueError("Index contains duplicate entries,
\* cannot reshape") on a repeated (index, columns) key
pivotear_dataset(d) ==
    IF HasDuplicateEntries(d) THEN Raise("ValueError") ELSE Ok(WideTable(d))

----------------------------------------------------------------------------
(* Inputs of pivotear_dataset: cleaned long tables *)

\* most rows of a cleaned long table given to pivotear_dataset
MaxLongRows == 3

\* the 'Total' cells the normaliser leaves: null, 1 and 1.5
LongValues == {NaN, Num(1, 0), Num(15, 1)}

\* the decimal digits of a year
YearString(y) ==
    LET d(k) == CHOOSE ch \in Digits : DigitVal(ch) = (y \div k) % 10
    IN <<d(1000), d(100), d(10), d(1)>>

\* a year as the raw data hold it: an integer, or the string of its digits
YearCell(y, asString) == IF asString THEN Str(YearString(y)) ELSE IntCell(y)

LongRow(i, year, label, total) ==
    [idx |-> i - 1,
     c |-> [col \in LongColumns |->
              CASE col = "Anios" -> year
                [] col = "Sectores/unidad" -> Str(<<label>>)
                [] col = "Total" -> total]]

LongYears == {2020, 2021}

\* df is a long table of n more rows after `rows`
RECURSIVE LongInput(_, _, _)
LongInput(n, asString, rows) ==
    IF n = 0 THEN df = [columns |-> LongColumns, rows |-> rows]
    ELSE \E y \in LongYears, k \in DOMAIN Categories, v \in LongValues :
             LongInput(n - 1, asString,
                       Append(rows, LongRow(Len(rows) + 1, YearCell(y, asString),
                                            Categories[k], v)))

----------------------------------------------------------------------------
(* Specification of the reshaper *)

InitPivot ==
    /\ pc = "pivotear"
    /\ \E n \in 1..MaxLongRows, asString \in BOOLEAN : LongInput(n, asString, <<>>)
    /\ df2 = EmptyDF
    /\ anio_duplicado = 0 /\ anio_inicio = 0 /\ anio_fin = 0
    /\ df_limpio = EmptyDF /\ df_pivot = EmptyDF
    /\ df_consolidado = EmptyDF /\ df_filtrado = EmptyDF
    /\ err = ""
    /\ heap = <<>> /\ ref = <<>>

Pivotear ==
    /\ pc = "pivotear"
    /\ LET r == pivotear_dataset(df)
       IN /\ df_pivot' = r.df
          /\ err' = r.err
    /\ pc' = "pivoteado"
    /\ UNCHANGED <<df, df2, anio_duplicado, anio_inicio, anio_fin,
                   df_limpio, df_consolidado, df_filtrado, heap, ref>>

NextPivot == Pivotear

SpecPivot == InitPivot /\ [][NextPivot]_vars

----------------------------------------------------------------------------
(* consolidar_datasets *)

\* `cell != k` of Python for an integer k: a string never equals a number
PyNotEqual(v, k) == ~(v.t = "num" /\ v.e = 0 /\ v.n = k)

\* df2[df2['Anios'] != anio_duplicado].copy()
SinDuplicado(d, anio) ==
    LET Keep(r) == PyNotEqual(r.c["Anios"], anio)
    IN [d EXCEPT !.rows = SelectSeq(d.rows, Keep)]

\* a row over the columns cols, NaN where it had no cell
Reindexed(r, cols) ==
    [r EXCEPT !.c = [col \in cols |-> IF col \in DOMAIN r.c THEN r.c[col] ELSE NaN]]

\* rows numbered 0..n-1 in their order
Renumbered(rows) == [k \in DOMAIN rows |-> [rows[k] EXCEPT !.idx = k - 1]]

\* a concatenation that keeps the shared columns only (join='inner')
Concat_Inner(a, b) ==
    [columns |-> a.columns \cap b.columns,
     rows |-> Renumbered([k \in DOMAIN (a.rows \o b.rows) |->
                            [idx |-> (a.rows \o b.rows)[k].idx,
                             c |-> [col \in a.columns \cap b.columns |->
                                      (a.rows \o b.rows)[k].c[col]]]])]

\* pd.concat([a, b], ignore_index=True): the union of the columns, the rows
\* of a then those of b, renumbered
Concat(a, b) ==
    [columns |-> a.columns \cup b.columns,
     rows |-> Renumbered([k \in DOMAIN (a.rows \o b.rows) |->
                            Reindexed((a.rows \o b.rows)[k], a.columns \cup b.columns)])]

\* df['Anios'] = pd.to_numeric(df['Anios'], errors='coerce')
CoerceYears(d) == SetColumn(d, "Anios", SeriesToNumeric(Column(d, "Anios")))

\* u <= v for two numeric cells; NaN is put last by sort_values
CellLeq(u, v) ==
    \/ v.t = "nan"
    \/ u.t = "num" /\ v.t = "num" /\ u.n * (10 ^ v.e) <= v.n * (10 ^ u.e)

\* the orders of the rows `left` of d that ascend in the year
RECURSIVE AscendingOrders(_, _)
AscendingOrders(d, left) ==
    IF left = {} THEN {<<>>}
    ELSE UNION {{<<m>> \o rest : rest \in AscendingOrders(d, left \ {m})} :
                   m \in {i \in left : \A j \in left :
                                          CellLeq(d.rows[i].c["Anios"], d.rows[j].c["Anios"])}}

\* the rows left in the order they have
SortOrders_Unsorted(d) == {[k \in DOMAIN d.rows |-> k]}

\* the orders sort_values('Anios') may give: ascending in the year; the
\* default quicksort leaves the order of the rows of one year open
SortOrders(d) == AscendingOrders(d, DOMAIN d.rows)

SortValues(d, p) == [d EXCEPT !.rows = [k \in DOMAIN p |-> d.rows[p[k]]]]

\* reset_index(drop=True)
ResetIndex(d) == [d EXCEPT !.rows = Renumbered(d.rows)]

\* the table before the sort
Concatenado(d1, d2, anio) == CoerceYears(Concat(d1, SinDuplicado(d2, anio)))

\* the whole function, for the order p the sort gives
consolidar_datasets(d1, d2, anio, p) ==
    ResetIndex(SortValues(Concatenado(d1, d2, anio), p))

----------------------------------------------------------------------------
(* filtrar_periodo *)

\* a period that leaves out its last year
InPeriod_Exclusive(v, inicio, fin) ==
    /\ v.t = "num"
    /\ inicio * (10 ^ v.e) <= v.n
    /\ v.n < fin * (10 ^ v.e)

\* cell >= k and cell <= k of Python for a numeric cell; NaN compares False
InPeriod(v, inicio, fin) ==
    /\ v.t = "num"
    /\ inicio * (10 ^ v.e) <= v.n
    /\ v.n <= fin * (10 ^ v.e)

\* df[(df['Anios'] >= anio_inicio) & (df['Anios'] <= anio_fin)].copy(); the
\* comparison of a string with an integer raises TypeError
filtrar_periodo(d, inicio, fin) ==
    IF \E i \in DOMAIN d.rows : d.rows[i].c["Anios"].t = "str"
    THEN Raise("TypeError")
    ELSE LET Keep(r) == InPeriod(r.c["Anios"], inicio, fin)
         IN Ok([d EXCEPT !.rows = SelectSeq(d.rows, Keep)])

----------------------------------------------------------------------------
(* Inputs of consolidar_datasets: wide tables, one row per year, ascending *)

\* the years of S in ascending order
RECURSIVE Ascending(_)
Ascending(S) ==
    IF S = {} THEN <<>>
    ELSE LET m == CHOOSE x \in S : \A y \in S : x <= y
         IN <<m>> \o Ascending(S \ {m})

\* the wide table number `tab` with the years S and the one category `label`;
\* every cell holds a number of its own, 10000 * tab + year
WideInput(tab, S, asString, label) ==
    [columns |-> {"Anios", label},
     rows |-> [k \in DOMAIN Ascending(S) |->
                 [idx |-> k - 1,
                  c |-> [col \in {"Anios", label} |->
                           IF col = "Anios" THEN YearCell(Ascending(S)[k], asString)
                           ELSE IntCell(10000 * tab + Ascending(S)[k])]]]]

WideLabels == {"Total", "Empresas"}

----------------------------------------------------------------------------
(* Specification of the consolidator and the range filter *)

InitConsolidar ==
    /\ pc = "consolidar"
    /\ \E S \in SUBSET Years, asString \in BOOLEAN, label \in WideLabels :
          df = WideInput(1, S, asString, label)
    /\ \E S \in SUBSET Years, asString \in BOOLEAN, label \in WideLabels :
          df2 = WideInput(2, S, asString, label)
    /\ anio_duplicado \in Years
    /\ anio_inicio = 0 /\ anio_fin = 0
    /\ df_limpio = EmptyDF /\ df_pivot = EmptyDF
    /\ df_consolidado = EmptyDF /\ df_filtrado = EmptyDF
    /\ err = ""
    /\ heap = <<>> /\ ref = <<>>

Consolidar ==
    /\ pc = "consolidar"
    /\ \E p \in SortOrders(Concatenado(df, df2, anio_duplicado)) :
          df_consolidado' = consolidar_datasets(df, df2, anio_duplicado, p)
    /\ pc' = "filtrar"
    /\ UNCHANGED <<df, df2, anio_duplicado, anio_inicio, anio_fin,
                   df_limpio, df_pivot, df_filtrado, err, heap, ref>>

Filtrar ==
    /\ pc = "filtrar"
    /\ \E inicio \in Years, fin \in Years :
          LET r == filtrar_periodo(df_consolidado, inicio, fin)
          IN /\ anio_inicio' = inicio
             /\ anio_fin' = fin
             /\ df_filtrado' = r.df
             /\ err' = r.err
    /\ pc' = "filtrado"
    /\ UNCHANGED <<df, df2, anio_duplicado, df_limpio, df_pivot, df_consolidado,
                   heap, ref>>

NextConsolidar == Consolidar \/ Filtrar

SpecConsolidar == InitConsolidar /\ [][NextConsolidar]_vars

----------------------------------------------------------------------------
(* DataFrame objects *)

\* a new object that holds d: the heap with it, and its identity
Alloc(h, d) == [heap |-> Append(h, d), id |-> Len(h) + 1]

\* a "copy" that is the object itself
DfCopy_Alias(h, a) == [heap |-> h, id |-> a]

\* df.copy(): a new object with the content of object a
DfCopy(h, a) == Alloc(h, h[a])

\* a write into object id
Store(h, id, d) == [h EXCEPT ![id] = d]

\* the outcome of a call: the heap after it, the object returned, the error
Returned(m) == [heap |-> m.heap, id |-> m.id, err |-> ""]

Raised(h, e) == [heap |-> h, id |-> 0, err |-> e]

\* the table a name is bound to
Table(name) == heap[ref[name]]

Bound(name) == name \in DOMAIN ref

----------------------------------------------------------------------------
(* separar_valores_porcentajes *)

\* str.contains('%') with a missing label counted as a percentage (na=True)
ContainsPercent_NaTrue(v) == v.t # "str" \/ \E i \in DOMAIN v.s : v.s[i] = "%"

\* str.contains('%', na=False) on one cell: a cell that is no string gives
\* the value of na
ContainsPercent(v) == v.t = "str" /\ \E i \in DOMAIN v.s : v.s[i] = "%"

\* df[~filas_porcentaje]: the rows outside the mask, with their index labels
SinPorcentajes(d) ==
    LET Keep(r) == ~ContainsPercent(r.c["Sectores/unidad"])
    IN [d EXCEPT !.rows = SelectSeq(d.rows, Keep)]

\* the whole function on the heap: the selection is a new object, and the
\* object returned is a copy of it
separar_valores_porcentajes(h, a) ==
    LET sel == Alloc(h, SinPorcentajes(h[a]))
    IN Returned(DfCopy(sel.heap, sel.id))

----------------------------------------------------------------------------
(* Inputs of separar_valores_porcentajes: cleaned long tables *)

\* the 'Sectores/unidad' cells: an absolute value, a percentage, no label
SectorCells ==
    {Str(<<"Empresas: Total (miles de euros)">>),
     Str(<<"Empresas: ", "%", " del PIB">>),
     NaN}

\* heap holds one long table of n more rows after `rows`, bound to the
\* name of the cleaned table of flow 1; its label column is of object dtype
\* (it holds a string, or the table is empty)
RECURSIVE CleanedInput(_, _, _)
CleanedInput(n, asString, rows) ==
    IF n = 0
    THEN /\ rows = <<>> \/ \E i \in DOMAIN rows : rows[i].c["Sectores/unidad"].t = "str"
         /\ heap = <<[columns |-> LongColumns, rows |-> rows]>>
    ELSE \E y \in LongYears, lab \in SectorCells, v \in LongValues :
             CleanedInput(n - 1, asString,
                          Append(rows, [idx |-> Len(rows),
                                        c |-> [col \in LongColumns |->
                                                 CASE col = "Anios" -> YearCell(y, asString)
                                                   [] col = "Sectores/unidad" -> lab
                                                   [] col = "Total" -> v]]))

----------------------------------------------------------------------------
(* Specification of the category filter *)

InitSeparar ==
    /\ pc = "run"
    /\ \E n \in 0..MaxLongRows, asString \in BOOLEAN : CleanedInput(n, asString, <<>>)
    /\ ref = (<<1, "df_limpio">> :> 1)
    /\ df = EmptyDF /\ df2 = EmptyDF
    /\ anio_duplicado = 0 /\ anio_inicio = 0 /\ anio_fin = 0
    /\ df_limpio = EmptyDF /\ df_pivot = EmptyDF
    /\ df_consolidado = EmptyDF /\ df_filtrado = EmptyDF
    /\ err = ""

\* the call of a flow's second stage on the cleaned table of flow k
Separar(k) ==
    /\ pc = "run"
    /\ Bound(<<k, "df_limpio">>) /\ ~Bound(<<k, "df_valores">>)
    /\ LET r == separar_valores_porcentajes(heap, ref[<<k, "df_limpio">>])
       IN /\ heap' = r.heap
          /\ ref' = ref @@ (<<k, "df_valores">> :> r.id)
    /\ UNCHANGED <<pc, df, df2, anio_duplicado, anio_inicio, anio_fin,
                   df_limpio, df_pivot, df_consolidado, df_filtrado, err>>

NextSeparar == Separar(1)

SpecSeparar == InitSeparar /\ [][NextSeparar]_vars

----------------------------------------------------------------------------
(* renombrar_columnas_gastos, renombrar_columnas_fondos *)

renombrado_gastos ==
    ("Total (miles de euros)" :> "Total")
    @@ ("Administracion Publica: Total (miles de euros)" :> "Admin_Publica")
    @@ ("Ensenianza Superior: Total (miles de euros)" :> "Ensenianza_Superior")
    @@ ("Empresas: Total (miles de euros)" :> "Empresas")
    @@ ("IPSFL: Total (miles de euros)" :> "IPSFL")

renombrado_fondos ==
    ("Total (miles de euros)" :> "Total")
    @@ ("Administracion Publica: Total (miles de euros)" :> "Admin_Publica")
    @@ ("Empresas: Total (miles de euros)" :> "Empresas")
    @@ ("IPSFL: Total (miles de euros)" :> "IPSFL")
    @@ ("Resto del Mundo: Total (miles de euros)" :> "Resto_Mundo")

\* the name of a column after df.rename(columns=renombrado)
NewName(col, renombrado) ==
    IF col \in DOMAIN renombrado THEN renombrado[col] ELSE col

\* df.rename(columns=renombrado): the cells under the new names
Rename(d, renombrado) ==
    LET names == {NewName(col, renombrado) : col \in d.columns}
        Old(name) == CHOOSE col \in d.columns : NewName(col, renombrado) = name
    IN [columns |-> names,
        rows |-> [i \in DOMAIN d.rows |->
                    [idx |-> d.rows[i].idx,
                     c |-> [name \in names |-> d.rows[i].c[Old(name)]]]]]

\* the functions on the heap: rename returns a new object
renombrar_columnas_gastos(h, a) == Returned(Alloc(h, Rename(h[a], renombrado_gastos)))

renombrar_columnas_fondos(h, a) == Returned(Alloc(h, Rename(h[a], renombrado_fondos)))

----------------------------------------------------------------------------
(* limpiar_columna_total and pivotear_dataset on the heap *)

\* df_limpio = df.copy(), then the writes of Paso 1 to Paso 4 into df_limpio;
\* when .str raises, Paso 1 has been written
Call_limpiar_columna_total(h, a, dc) ==
    LET cp == DfCopy(h, a)
        r == limpiar_columna_total(cp.heap[cp.id], dc)
        paso1 == SetColumn(cp.heap[cp.id], "Total",
                           ReplaceSentinel(Column(cp.heap[cp.id], "Total")))
    IN IF r.err # ""
       THEN Raised(Store(cp.heap, cp.id, paso1), r.err)
       ELSE Returned([heap |-> Store(cp.heap, cp.id, r.df), id |-> cp.id])

\* df.pivot(...).reset_index() is a new object
Call_pivotear_dataset(h, a) ==
    LET r == pivotear_dataset(h[a])
    IN IF r.err # "" THEN Raised(h, r.err) ELSE Returned(Alloc(h, r.df))

----------------------------------------------------------------------------
(* The stages of a flow: each is a call on the table the stage before     *)
(* returned; an exception ends the run                                     *)

\* the state after a call that returned r, its result bound to `name`
Bind(r, name) ==
    /\ heap' = r.heap
    /\ err' = r.err
    /\ IF r.err = ""
       THEN pc' = pc /\ ref' = ref @@ (name :> r.id)
       ELSE pc' = "halt" /\ ref' = ref

EtapaLimpiar(k) ==
    /\ pc = "run"
    /\ Bound(<<k, "df">>) /\ ~Bound(<<k, "df_limpio">>)
    /\ \E dc \in BOOLEAN :
          Bind(Call_limpiar_columna_total(heap, ref[<<k, "df">>], dc), <<k, "df_limpio">>)
    /\ UNCHANGED <<df, df2, anio_duplicado, anio_inicio, anio_fin,
                   df_limpio, df_pivot, df_consolidado, df_filtrado>>

EtapaPivotear(k) ==
    /\ pc = "run"
    /\ Bound(<<k, "df_valores">>) /\ ~Bound(<<k, "df_pivot">>)
    /\ Bind(Call_pivotear_dataset(heap, ref[<<k, "df_valores">>]), <<k, "df_pivot">>)
    /\ UNCHANGED <<df, df2, anio_duplicado, anio_inicio, anio_fin,
                   df_limpio, df_pivot, df_consolidado, df_filtrado>>

EtapaRenombrarGastos(k) ==
    /\ pc = "run"
    /\ Bound(<<k, "df_pivot">>) /\ ~Bound(<<k, "df_renombrado">>)
    /\ Bind(renombrar_columnas_gastos(heap, ref[<<k, "df_pivot">>]), <<k, "df_renombrado">>)
    /\ UNCHANGED <<df, df2, anio_duplicado, anio_inicio, anio_fin,
                   df_limpio, df_pivot, df_consolidado, df_filtrado>>

EtapaRenombrarFondos(k) ==
    /\ pc = "run"
    /\ Bound(<<k, "df_pivot">>) /\ ~Bound(<<k, "df_renombrado">>)
    /\ Bind(renombrar_columnas_fondos(heap, ref[<<k, "df_pivot">>]), <<k, "df_renombrado">>)
    /\ UNCHANGED <<df, df2, anio_duplicado, anio_inicio, anio_fin,
                   df_limpio, df_pivot, df_consolidado, df_filtrado>>

----------------------------------------------------------------------------
(* Inputs of the expenditure flow: raw long tables *)

\* most rows of a raw long table given to the expenditure flow
MaxGastosRows == 2

\* the labels of a raw expenditure table: two headers of the rename map, a
\* percentage, a header outside the map
GastosLabels ==
    {<<"Total (miles de euros)">>,
     <<"Empresas: Total (miles de euros)">>,
     <<"Empresas: ", "%", " del PIB">>,
     <<"Resto del Mundo: Total (miles de euros)">>}

\* the raw 'Total' cells: the sentinel, 1.000,5 and 1,5
GastosTotals ==
    {<<".", ".">>, <<"1", ".", "0", "0", "0", ",", "5">>, <<"1", ",", "5">>}

\* heap holds one raw long table of n more rows after `rows`
RECURSIVE GastosInput(_, _, _)
GastosInput(n, asString, rows) ==
    IF n = 0 THEN heap = <<[columns |-> LongColumns, rows |-> rows]>>
    ELSE \E y \in LongYears, lab \in GastosLabels, tot \in GastosTotals :
             GastosInput(n - 1, asString,
                         Append(rows, [idx |-> Len(rows),
                                       c |-> [col \in LongColumns |->
                                                CASE col = "Anios" -> YearCell(y, asString)
                                                  [] col = "Sectores/unidad" -> Str(lab)
                                                  [] col = "Total" -> Str(tot)]]))

----------------------------------------------------------------------------
(* Specification of the expenditure flow *)

InitGastos ==
    /\ pc = "run"
    /\ \E n \in 0..MaxGastosRows, asString \in BOOLEAN : GastosInput(n, asString, <<>>)
    /\ ref = (<<1, "df">> :> 1)
    /\ df = EmptyDF /\ df2 = EmptyDF
    /\ anio_duplicado = 0 /\ anio_inicio = 0 /\ anio_fin = 0
    /\ df_limpio = EmptyDF /\ df_pivot = EmptyDF
    /\ df_consolidado = EmptyDF /\ df_filtrado = EmptyDF
    /\ err = ""

NextGastos ==
    EtapaLimpiar(1) \/ Separar(1) \/ EtapaPivotear(1) \/ EtapaRenombrarGastos(1)

SpecGastos == InitGastos /\ [][NextGastos]_vars

----------------------------------------------------------------------------
(* consolidar_datasets, filtrar_periodo and preparar_para_indice on the heap *)

\* df2[...].copy(), pd.concat, the write of the coerced years into the
\* concatenation, sort_values(...).reset_index(drop=True)
Call_consolidar_datasets(h, a1, a2, anio, p) ==
    LET sel == Alloc(h, SinDuplicado(h[a2], anio))
        df2_sin_duplicado == DfCopy(sel.heap, sel.id)
        cat == Alloc(df2_sin_duplicado.heap,
                     Concat(df2_sin_duplicado.heap[a1],
                            df2_sin_duplicado.heap[df2_sin_duplicado.id]))
        coerced == Store(cat.heap, cat.id, CoerceYears(cat.heap[cat.id]))
    IN Returned(Alloc(coerced, ResetIndex(SortValues(coerced[cat.id], p))))

\* df[...].copy(); the comparison raises before anything is built
Call_filtrar_periodo(h, a, inicio, fin) ==
    LET r == filtrar_periodo(h[a], inicio, fin)
        sel == Alloc(h, r.df)
    IN IF r.err # "" THEN Raised(h, r.err) ELSE Returned(DfCopy(sel.heap, sel.id))

\* df.set_index('Anios'): the year of a row is its index label, the column
\* is dropped
SetIndex(d) ==
    [columns |-> d.columns \ {"Anios"},
     rows |-> [i \in DOMAIN d.rows |->
                 [idx |-> YearKey(d.rows[i].c["Anios"]),
                  c |-> [col \in d.columns \ {"Anios"} |-> d.rows[i].c[col]]]]]

\* the format :.0f of the print raises ValueError for a string year, after
\* set_index has built its result
preparar_para_indice(h, a) ==
    LET df_con_indice == Alloc(h, SetIndex(h[a]))
    IN IF \E i \in DOMAIN h[a].rows : h[a].rows[i].c["Anios"].t = "str"
       THEN Raised(df_con_indice.heap, "ValueError")
       ELSE Returned(df_con_indice)

EtapaConsolidar ==
    /\ pc = "run"
    /\ Bound(<<1, "df_renombrado">>) /\ Bound(<<2, "df_renombrado">>)
    /\ ~Bound(<<0, "df_consolidado">>)
    /\ \E anio \in Years :
          \E p \in SortOrders(Concatenado(Table(<<1, "df_renombrado">>),
                                            Table(<<2, "df_renombrado">>), anio)) :
             Bind(Call_consolidar_datasets(heap, ref[<<1, "df_renombrado">>],
                                           ref[<<2, "df_renombrado">>], anio, p),
                  <<0, "df_consolidado">>)
    /\ UNCHANGED <<df, df2, anio_duplicado, anio_inicio, anio_fin,
                   df_limpio, df_pivot, df_consolidado, df_filtrado>>

EtapaFiltrar ==
    /\ pc = "run"
    /\ Bound(<<0, "df_consolidado">>) /\ ~Bound(<<0, "df_filtrado">>)
    /\ \E inicio \in Years, fin \in Years :
          Bind(Call_filtrar_periodo(heap, ref[<<0, "df_consolidado">>], inicio, fin),
               <<0, "df_filtrado">>)
    /\ UNCHANGED <<df, df2, anio_duplicado, anio_inicio, anio_fin,
                   df_limpio, df_pivot, df_consolidado, df_filtrado>>

EtapaPreparar ==
    /\ pc = "run"
    /\ Bound(<<0, "df_filtrado">>) /\ ~Bound(<<0, "df_con_indice">>)
    /\ Bind(preparar_para_indice(heap, ref[<<0, "df_filtrado">>]), <<0, "df_con_indice">>)
    /\ UNCHANGED <<df, df2, anio_duplicado, anio_inicio, anio_fin,
                   df_limpio, df_pivot, df_consolidado, df_filtrado>>

----------------------------------------------------------------------------
(* Specification of the whole pipeline: two raw long tables, each cleaned, *)
(* separated, pivoted and renamed, then consolidated, filtered and indexed *)

\* a raw long row
RawRow(i, year, asString, lab, tot) ==
    [idx |-> i,
     c |-> [col \in LongColumns |->
              CASE col = "Anios" -> YearCell(year, asString)
                [] col = "Sectores/unidad" -> Str(lab)
                [] col = "Total" -> Str(tot)]]

\* the first raw table: for each year of S a row of the header 'Total (miles
\* de euros)', the total 1,5 in the first and '..' in the others, and with
\* withPercent a percentage row at the end
FirstTable(S, asString, withPercent) ==
    LET ys == Ascending(S)
        abs == [k \in DOMAIN ys |->
                  RawRow(k - 1, ys[k], asString, <<"Total (miles de euros)">>,
                         IF k = 1 THEN <<"1", ",", "5">> ELSE <<".", ".">>)]
    IN [columns |-> LongColumns,
        rows |-> IF withPercent
                 THEN Append(abs, RawRow(Len(abs), 2020, asString,
                                         <<"Empresas: ", "%", " del PIB">>,
                                         <<"1", ",", "5">>))
                 ELSE abs]

\* the second raw table: the year 2021 with the total 1.000,5 under a header
\* of the rename map of the funds
SecondTable(asString) ==
    [columns |-> LongColumns,
     rows |-> <<RawRow(0, 2021, asString, <<"Resto del Mundo: Total (miles de euros)">>,
                       <<"1", ".", "0", "0", "0", ",", "5">>)>>]

InitPipeline ==
    /\ pc = "run"
    /\ \E S \in SUBSET LongYears, asString \in BOOLEAN, withPercent \in BOOLEAN,
          asString2 \in BOOLEAN :
          heap = <<FirstTable(S, asString, withPercent), SecondTable(asString2)>>
    /\ ref = (<<1, "df">> :> 1) @@ (<<2, "df">> :> 2)
    /\ df = EmptyDF /\ df2 = EmptyDF
    /\ anio_duplicado = 0 /\ anio_inicio = 0 /\ anio_fin = 0
    /\ df_limpio = EmptyDF /\ df_pivot = EmptyDF
    /\ df_consolidado = EmptyDF /\ df_filtrado = EmptyDF
    /\ err = ""

NextPipeline ==
    \/ \E k \in {1, 2} : EtapaLimpiar(k) \/ Separar(k) \/ EtapaPivotear(k)
    \/ EtapaRenombrarGastos(1)
    \/ EtapaRenombrarFondos(2)
    \/ EtapaConsolidar
    \/ EtapaFiltrar
    \/ EtapaPreparar

SpecPipeline == InitPipeline /\ [][NextPipeline]_vars

----------------------------------------------------------------------------
(* European-formatted numbers, read without the conversions of the source *)

AllDigits(s) == \A i \in DOMAIN s : IsDigit(s[i])

\* groups of three digits after a first group of one to three, points between
Grouped(s) ==
    /\ Len(s) % 4 # 0
    /\ \A i \in DOMAIN s :
          IF (Len(s) - i + 1) % 4 = 0 THEN s[i] = "." ELSE IsDigit(s[i])

\* period as thousands separator, comma as decimal separator
ValidEuropean(s) ==
    LET p == IndexOf(s, ",")
        int == SubSeq(s, 1, p - 1)
        frac == SubSeq(s, p + 1, Len(s))
    IN /\ int # <<>>
       /\ AllDigits(int) \/ Grouped(int)
       /\ AllDigits(frac)
       /\ p <= Len(s) => frac # <<>>

\* the number a valid European string denotes: its digits, of which those
\* after the comma are the decimals
EuropeanValue(s) ==
    Num(DigitsToNat(SelectSeq(s, IsDigit)),
        IF IndexOf(s, ",") <= Len(s) THEN Len(s) - IndexOf(s, ",") ELSE 0)

\* rows, index labels and the cells outside 'Total' are those of the input
SameButTotal(in, out) ==
    /\ out.columns = in.columns
    /\ Len(out.rows) = Len(in.rows)
    /\ \A i \in DOMAIN in.rows :
          /\ out.rows[i].idx = in.rows[i].idx
          /\ \A col \in in.columns \ {"Total"} : out.rows[i].c[col] = in.rows[i].c[col]

\* C3: limpiar_columna_total turns every valid European-formatted 'Total'
\* cell into the number it denotes (points deleted, comma as decimal point),
\* and leaves the other columns and the row order as they were.
C3_ValidEuropeanNormalised ==
    pc = "limpiado" =>
        \A i \in DOMAIN df.rows :
            ValidEuropean(df.rows[i].c["Total"].s) =>
                /\ err = ""
                /\ SameButTotal(df, df_limpio)
                /\ df_limpio.rows[i].c["Total"] = EuropeanValue(df.rows[i].c["Total"].s)

\* a thousands separator and a decimal comma in one cell: "1.111,1" is 1111.1
C3_Witness ==
    /\ pc = "limpiado"
    /\ err = ""
    /\ \E i \in DOMAIN df.rows :
          /\ df.rows[i].c["Total"] = Str(<<"1", ".", "1", "1", "1", ",", "1">>)
          /\ df_limpio.rows[i].c["Total"] = Num(11111, 1)

\* the string left of a cell by Paso 2 and Paso 3
Normalised(s) == StrReplace(StrReplace(s, ".", <<>>), ",", <<".">>)

\* C4: limpiar_columna_total never raises: it returns a table of as many
\* rows as its input, in which every '..' cell and every cell that is no
\* float after the normalisation of the separators is null.
C4_NeverRaises ==
    pc = "limpiado" =>
        /\ err = ""
        /\ Len(df_limpio.rows) = Len(df.rows)
        /\ \A i \in DOMAIN df.rows :
              (df.rows[i].c["Total"] = Sentinel
                 \/ ~IsFloatLiteral(Normalised(df.rows[i].c["Total"].s)))
                    => df_limpio.rows[i].c["Total"] = NaN

----------------------------------------------------------------------------
(* Properties of the reshaper *)

\* each (year, category) pair occurs in at most one row
UniqueKeys(d) ==
    \A i, j \in DOMAIN d.rows :
        (/\ d.rows[i].c["Anios"] = d.rows[j].c["Anios"]
         /\ d.rows[i].c["Sectores/unidad"] = d.rows[j].c["Sectores/unidad"]) => i = j

YearsOf(d) == {d.rows[i].c["Anios"] : i \in DOMAIN d.rows}

LabelsOf(d) == {d.rows[i].c["Sectores/unidad"].s[1] : i \in DOMAIN d.rows}

C6_DuplicatesRaise ==
    (pc = "pivoteado" /\ ~UniqueKeys(df)) => (err = "ValueError" /\ df_pivot = EmptyDF)

\* the same key with two different values
C6_Witness ==
    /\ pc = "pivoteado"
    /\ err = "ValueError"
    /\ \E i, j \in DOMAIN df.rows :
          /\ i # j
          /\ df.rows[i].c["Anios"] = df.rows[j].c["Anios"]
          /\ df.rows[i].c["Sectores/unidad"] = df.rows[j].c["Sectores/unidad"]
          /\ df.rows[i].c["Total"] = Num(1, 0)
          /\ df.rows[j].c["Total"] = Num(15, 1)

\* the (year, category, value) triples of a long table
Triples(d) ==
    {<<d.rows[i].c["Anios"], d.rows[i].c["Sectores/unidad"].s[1], d.rows[i].c["Total"]>> :
        i \in DOMAIN d.rows}

\* a wide table back in long form, one triple per non-null cell
Flatten(w) ==
    {tr \in {<<w.rows[k].c["Anios"], col, w.rows[k].c[col]>> :
                k \in DOMAIN w.rows, col \in w.columns \ {"Anios"}} : tr[3] # NaN}

\* C7 as stated: pivoting a long table with unique pairs (values floats or
\* null) and flattening the wide table gives back all the triples of the table.
C7_RoundTripAll ==
    (pc = "pivoteado" /\ UniqueKeys(df)) => Flatten(df_pivot) = Triples(df)

\* C7 as amended: pivoting a long table with unique pairs and flattening the
\* wide table gives back exactly the triples of the table whose value is not
\* null.
C7_RoundTripNonNull ==
    (pc = "pivoteado" /\ UniqueKeys(df)) =>
        Flatten(df_pivot) = {tr \in Triples(df) : tr[3] # NaN}

\* a null and a non-null value under unique keys: the flattened table holds
\* the second only
C7_Witness ==
    /\ pc = "pivoteado"
    /\ err = ""
    /\ \E tr \in Triples(df) : tr[3] = NaN
    /\ Cardinality(Flatten(df_pivot)) = 2
    /\ Cardinality(Triples(df)) = 3

----------------------------------------------------------------------------
(* Properties of the consolidator and the range filter *)

\* the years of a table as numbers
NumericYears(d) == {ToNumeric(d.rows[i].c["Anios"]) : i \in DOMAIN d.rows}

\* the rows of d whose year, as a number, is y
RowsOfYear(d, y) == {i \in DOMAIN d.rows : ToNumeric(d.rows[i].c["Anios"]) = y}

Consolidated == pc \in {"filtrar", "filtrado"}

\* C1: the consolidated table has rows(df1) + rows(df2) - 1 rows when
\* anio_duplicado occurs as a year of df2 (an integer or a numeric string),
\* and rows(df1) + rows(df2) rows when it does not.
C1_RowCount ==
    Consolidated =>
        Len(df_consolidado.rows) =
            Len(df.rows) + Len(df2.rows)
              - (IF IntCell(anio_duplicado) \in NumericYears(df2) THEN 1 ELSE 0)

\* C2: when each table has one row per year and the only year the two share
\* is anio_duplicado, the consolidated table has exactly one row for each
\* year of the union, and the row of anio_duplicado holds the early values.
C2_OverlapFromEarly ==
    (Consolidated /\ NumericYears(df) \cap NumericYears(df2) = {IntCell(anio_duplicado)}) =>
        /\ NumericYears(df_consolidado) = NumericYears(df) \cup NumericYears(df2)
        /\ \A y \in NumericYears(df_consolidado) :
              Cardinality(RowsOfYear(df_consolidado, y)) = 1
        /\ \A k \in RowsOfYear(df_consolidado, IntCell(anio_duplicado)) :
              \A i \in RowsOfYear(df, IntCell(anio_duplicado)) :
                  \A col \in df.columns \ {"Anios"} :
                      df_consolidado.rows[k].c[col] = df.rows[i].c[col]

\* C8: filtrar_periodo keeps exactly the rows whose year y has
\* anio_inicio <= y <= anio_fin, in their order and as they were; with
\* anio_inicio > anio_fin the result is empty, and no error is raised.
C8_InclusivePeriod ==
    pc = "filtrado" =>
        /\ err = ""
        /\ df_filtrado.columns = df_consolidado.columns
        /\ \A i \in DOMAIN df_consolidado.rows :
              (/\ anio_inicio <= df_consolidado.rows[i].c["Anios"].n
               /\ df_consolidado.rows[i].c["Anios"].n <= anio_fin)
                 <=> (\E k \in DOMAIN df_filtrado.rows :
                         df_filtrado.rows[k] = df_consolidado.rows[i])
        /\ \A k \in DOMAIN df_filtrado.rows :
              /\ \E i \in DOMAIN df_consolidado.rows :
                    df_filtrado.rows[k] = df_consolidado.rows[i]
              /\ k > 1 => df_filtrado.rows[k - 1].idx < df_filtrado.rows[k].idx
        /\ anio_inicio > anio_fin => df_filtrado.rows = <<>>

\* a period of one year: the years before and after it are dropped, the
\* two rows of the year are kept
C8_Witness ==
    /\ pc = "filtrado"
    /\ err = ""
    /\ anio_inicio = 2021 /\ anio_fin = 2021
    /\ Len(df_consolidado.rows) = 4
    /\ Len(df_filtrado.rows) = 2
    /\ \E i \in DOMAIN df_consolidado.rows : df_consolidado.rows[i].c["Anios"] = IntCell(2020)
    /\ \E i \in DOMAIN df_consolidado.rows : df_consolidado.rows[i].c["Anios"] = IntCell(2022)

\* C9: the rows of the consolidated table ascend in the year taken as a
\* number, and their positions are numbered 0..n-1 in that order.
C9_SortedRenumbered ==
    Consolidated =>
        \A k \in DOMAIN df_consolidado.rows :
            /\ df_consolidado.rows[k].c["Anios"].t = "num"
            /\ df_consolidado.rows[k].idx = k - 1
            /\ k > 1 => df_consolidado.rows[k - 1].c["Anios"].n
                           <= df_consolidado.rows[k].c["Anios"].n

\* an early table of year strings after a late table of smaller integers
C9_Witness ==
    /\ Consolidated
    /\ Len(df.rows) = 2 /\ Len(df2.rows) = 1
    /\ df.rows[1].c["Anios"] = Str(<<"2", "0", "2", "1">>)
    /\ df2.rows[1].c["Anios"] = IntCell(2020)
    /\ anio_duplicado = 2022
    /\ Len(df_consolidado.rows) = 3
    /\ df_consolidado.rows[1].c["Anios"] = IntCell(2020)
    /\ df_consolidado.rows[3].c["Anios"] = IntCell(2022)

\* the rows of the result that hold the cells of row r of table d
Copies(d, r) ==
    {k \in DOMAIN df_consolidado.rows :
        \A col \in d.columns \ {"Anios"} : df_consolidado.rows[k].c[col] = r.c[col]}

\* C10: with different column sets the consolidated table has the union of
\* the columns; every row of df1, and every row of df2 of another year than
\* anio_duplicado, is in it once, with null in the columns its table lacks.
C10_MismatchedColumns ==
    (Consolidated /\ df.columns # df2.columns) =>
        /\ err = ""
        /\ df_consolidado.columns = df.columns \cup df2.columns
        /\ Len(df_consolidado.rows) <= Len(df.rows) + Len(df2.rows)
        /\ \A i \in DOMAIN df.rows :
              /\ Cardinality(Copies(df, df.rows[i])) = 1
              /\ \A k \in Copies(df, df.rows[i]) :
                    /\ df_consolidado.rows[k].c["Anios"] = ToNumeric(df.rows[i].c["Anios"])
                    /\ \A col \in df2.columns \ df.columns :
                          df_consolidado.rows[k].c[col] = NaN
        /\ \A i \in DOMAIN df2.rows :
              ToNumeric(df2.rows[i].c["Anios"]) # IntCell(anio_duplicado) =>
                  /\ Cardinality(Copies(df2, df2.rows[i])) = 1
                  /\ \A k \in Copies(df2, df2.rows[i]) :
                        /\ df_consolidado.rows[k].c["Anios"] = ToNumeric(df2.rows[i].c["Anios"])
                        /\ \A col \in df.columns \ df2.columns :
                              df_consolidado.rows[k].c[col] = NaN

\* 'Total' in the early table only, 'Empresas' in the late table only
C10_Witness ==
    /\ Consolidated
    /\ df.columns = {"Anios", "Total"}
    /\ df2.columns = {"Anios", "Empresas"}
    /\ Len(df.rows) = 2 /\ Len(df2.rows) = 2
    /\ Len(df_consolidado.rows) = 3
    /\ df_consolidado.columns = {"Anios", "Total", "Empresas"}
    /\ \E k \in DOMAIN df_consolidado.rows :
          df_consolidado.rows[k].c["Total"] = NaN /\ df_consolidado.rows[k].c["Empresas"] # NaN
    /\ \E k \in DOMAIN df_consolidado.rows :
          df_consolidado.rows[k].c["Total"] # NaN /\ df_consolidado.rows[k].c["Empresas"] = NaN

----------------------------------------------------------------------------
(* Properties of the category filter *)

\* the positions of the rows of d whose label has no '%' in it
AbsoluteRows(d) ==
    {i \in DOMAIN d.rows :
        \A j \in DOMAIN d.rows[i].c["Sectores/unidad"].s :
            d.rows[i].c["Sectores/unidad"].s[j] # "%"}

----------------------------------------------------------------------------
(* The expenditure flow, from the raw long table to the renamed wide one *)

\* the flow of table k is over: its last stage returned, or a stage raised
GastosEnded == pc = "halt" \/ Bound(<<1, "df_renombrado">>)

\* the normalized numeric value of a raw 'Total' cell
NormalizedTotal(v) ==
    IF v = Sentinel THEN NaN
    ELSE IF ValidEuropean(v.s) THEN EuropeanValue(v.s) ELSE NaN

\* the name under which the category of a raw row is expected in the result
ShortName(v) ==
    IF Join(v.s) \in DOMAIN renombrado_gastos
    THEN renombrado_gastos[Join(v.s)] ELSE Join(v.s)

\* wide table w is the raw table `raw` pivoted, normalised and renamed
GastosResult(raw, w) ==
    LET abs == AbsoluteRows(raw)
        years == {raw.rows[i].c["Anios"] : i \in abs}
        names == {ShortName(raw.rows[i].c["Sectores/unidad"]) : i \in abs}
    IN /\ w.columns = {"Anios"} \cup names
       /\ Len(w.rows) = Cardinality(years)
       /\ {w.rows[j].c["Anios"] : j \in DOMAIN w.rows} = years
       /\ \A j \in DOMAIN w.rows, name \in names :
             LET from == {i \in abs :
                            /\ raw.rows[i].c["Anios"] = w.rows[j].c["Anios"]
                            /\ ShortName(raw.rows[i].c["Sectores/unidad"]) = name}
             IN IF from = {} THEN w.rows[j].c[name] = NaN
                ELSE \A i \in from :
                        w.rows[j].c[name] = NormalizedTotal(raw.rows[i].c["Total"])

\* C12: for every expenditure long table with unique (year, category)
\* pairs, limpiar_columna_total, separar_valores_porcentajes,
\* pivotear_dataset and renombrar_columnas_gastos in that order yield a wide
\* table with one row per year, in which each header of the rename map
\* appears under its short name and holds for each year the normalized
\* numeric value of the input row of that year and category, and every
\* column outside the map keeps its name and values.
C12_GastosFlow ==
    (GastosEnded /\ UniqueKeys(Table(<<1, "df">>))) =>
        /\ err = ""
        /\ Bound(<<1, "df_renombrado">>)
        /\ GastosResult(Table(<<1, "df">>), Table(<<1, "df_renombrado">>))

----------------------------------------------------------------------------
(* The stages and their arguments *)

\* C13: no stage mutates its input: over every call of limpiar_columna_total,
\* separar_valores_porcentajes, pivotear_dataset, renombrar_columnas_gastos,
\* renombrar_columnas_fondos, consolidar_datasets, filtrar_periodo and
\* preparar_para_indice, every table that existed before the call has the
\* rows, columns, cell values and year types it had, and the table the call
\* returns is a new one.
C13_NoStageMutates ==
    [][/\ \A o \in DOMAIN heap : o \in DOMAIN heap' /\ heap'[o] = heap[o]
       /\ \A name \in DOMAIN ref' \ DOMAIN ref : ref'[name] \notin DOMAIN heap]_vars

\* the whole pipeline has run on a first raw table with string years and
\* the total '1,5': the raw table holds the string, the cleaned one the
\* number; the renamed table holds the string year, the consolidated one
\* the number; the filtered table has its year column, the indexed one not
C13_Witness ==
    /\ Bound(<<0, "df_con_indice">>)
    /\ Len(Table(<<1, "df">>).rows) > 0
    /\ Table(<<1, "df">>).rows[1].c["Total"] = Str(<<"1", ",", "5">>)
    /\ Table(<<1, "df_limpio">>).rows[1].c["Total"] = Num(15, 1)
    /\ Table(<<1, "df">>).rows[1].c["Sectores/unidad"] = Str(<<"Total (miles de euros)">>)
    /\ Table(<<1, "df_renombrado">>).rows[1].c["Anios"].t = "str"
    /\ Table(<<0, "df_consolidado">>).rows[1].c["Anios"].t = "num"
    /\ "Anios" \in Table(<<0, "df_filtrado">>).columns
    /\ "Anios" \notin Table(<<0, "df_con_indice">>).columns

=============================================================================
